---- MODULE Spec2Model ----
(***************************************************************************)
(* kvs-bgp: a key/value store replicated over BGP.  A KeyValue pair is     *)
(* encoded as a collection of IPv6 routes (kv.rs), kept in a KvStore       *)
(* (store.rs) and exchanged with peers by the sync loop (peering.rs).      *)
(*                                                                         *)
(* Bytes are naturals 0..255, an Ipv6Addr is a tuple of 16 octets, a       *)
(* String is a sequence of bytes, an Option<T> is a set with at most one   *)
(* element and a HashMap is a function on the set of its keys.             *)
(***************************************************************************)
EXTENDS Integers, Sequences, FiniteSets, TLC

\* ------------------------------------------------------------------------
\* Bounds of the model (not program constants)
\* ------------------------------------------------------------------------
\* longest key and value (in characters) of the codec specification
MaxStrLen == 2
\* versions 0..MaxLowVersion are drawn next to the two highest u16 versions
MaxLowVersion == 1
\* longest store.outbound queue the store specification lets grow
MaxOutbound == 2
\* longest Vec<Route> a pending_routes entry may grow to
MaxPending == 2

\* ------------------------------------------------------------------------
\* Program constants
\* ------------------------------------------------------------------------
ADDR_PREFIX == <<191, 81>>
CHUNK_SIZE == 12
\* u16::MAX, the width of version, seq, N and the length fields
U16_MAX == 65535

\* ------------------------------------------------------------------------
\* Integer helpers of the fixed-width arithmetic
\* ------------------------------------------------------------------------
RECURSIVE Pow2(_)
Pow2(n) == IF n = 0 THEN 1 ELSE 2 * Pow2(n - 1)

RECURSIVE FloorLog2(_)
FloorLog2(n) == IF n <= 1 THEN 0 ELSE 1 + FloorLog2(n \div 2)

\* `x as u16`
AsU16(x) == x % 65536

\* u16::to_be_bytes / BufMut::put_u16
to_be_bytes(x) == <<(x \div 256) % 256, x % 256>>

\* Ipv6Addr::segments()[i], i counted from 0 as in the source
segments(addr, i) == addr[2 * i + 1] * 256 + addr[2 * i + 2]

\* `x as f32` for a usize x: round to nearest, ties to even, 24-bit mantissa
AsF32(x) ==
    IF x < 16777216 THEN x
    ELSE LET ulp == Pow2(FloorLog2(x) - 23)
             q == x \div ulp
             r == x % ulp
         IN  IF 2 * r > ulp \/ (2 * r = ulp /\ q % 2 = 1)
             THEN (q + 1) * ulp ELSE q * ulp

\* (a as f32 / 12 as f32).ceil() as usize, the quotient rounded to an f32
\* before the ceiling is taken
F32DivCeil(a, d) ==
    LET q == a \div d
        r == a % d
    IN  IF r = 0 THEN q
        ELSE IF q = 0 THEN 1
        ELSE LET lg == FloorLog2(q)
                 k == IF lg >= 23 THEN 0 ELSE 23 - lg
                 t == r * Pow2(k)
                 fl == t \div d
                 rem == t % d
                 odd == IF k = 0 THEN (q + fl) % 2 = 1 ELSE fl % 2 = 1
                 rounded == IF 2 * rem > d \/ (2 * rem = d /\ odd)
                            THEN fl + 1 ELSE fl
             IN  IF rounded = 0 THEN q ELSE q + 1

\* ------------------------------------------------------------------------
\* bincode serialization of a String: u64 little-endian length, then bytes
\* ------------------------------------------------------------------------
le64(n) == <<n % 256, (n \div 256) % 256, (n \div 65536) % 256,
             (n \div 16777216) % 256, 0, 0, 0, 0>>

\* a length prefix of four bytes (u32) instead of bincode's eight
serialized_len_u32(s) == 4 + Len(s)

\* length of bincode::serialize(s)
serialized_len(s) == 8 + Len(s)

\* byte p (from 1) of bincode::serialize(s)
serialized_at(s, p) == IF p <= 8 THEN le64(Len(s))[p] ELSE s[p - 8]

\* bincode::serialize(s)
serialize(s) == [p \in 1..serialized_len(s) |-> serialized_at(s, p)]

\* String::from_utf8 accepts the bytes (the model's strings are ASCII)
is_utf8(bs) == \A i \in 1..Len(bs) : bs[i] < 128

\* bincode::deserialize::<String>(bs): {} is an Err, {s} is Ok(s).  The
\* length is a u64; a length that the slice cannot hold is an error, and
\* bytes after the string are ignored.
deserialize(bs) ==
    IF Len(bs) < 8 THEN {}
    ELSE IF bs[4] # 0 \/ bs[5] # 0 \/ bs[6] # 0 \/ bs[7] # 0 \/ bs[8] # 0 THEN {}
    ELSE LET n == bs[1] + 256 * bs[2] + 65536 * bs[3]
         IN  IF n > Len(bs) - 8 THEN {}
             ELSE LET s == SubSeq(bs, 9, 8 + n)
                  IN  IF is_utf8(s) THEN {s} ELSE {}

\* ------------------------------------------------------------------------
\* Key, Value, KeyValue (kv.rs)
\* ------------------------------------------------------------------------
\* Key::get_hash: the 64-bit DefaultHasher digest of the key, as 8 octets.
\* The digest is a function of the key alone; it is modelled by the key's
\* length and its first five bytes, which is injective on the model's keys.
get_hash(key) ==
    LET n == Len(key)
        b(i) == IF i <= n THEN key[i] ELSE 0
    IN  <<(n \div 65536) % 256, (n \div 256) % 256, n % 256,
          b(1), b(2), b(3), b(4), b(5)>>

\* KeyValue::with_version
with_version(key, value, version) ==
    [key |-> key, value |-> value, hash |-> get_hash(key), version |-> version]

\* KeyValue::new with a first version of 1
new_from_one(key, value) == with_version(key, value, 1)

\* KeyValue::new
new(key, value) == with_version(key, value, 0)

\* Key::len and Value::len
key_len(kv) == serialized_len(kv.key)
value_len(kv) == serialized_len(kv.value)

\* KeyValue::as_bytes
as_bytes(kv) == serialize(kv.key) \o serialize(kv.value)

\* KeyValue::number_of_routes
number_of_routes(kv) ==
    F32DivCeil(AsF32(key_len(kv) + value_len(kv) + 4), AsF32(CHUNK_SIZE))

\* ------------------------------------------------------------------------
\* Prefix, NextHop, Route (kv.rs)
\* ------------------------------------------------------------------------
\* Prefix::sequence
prefix_sequence(prefix) == segments(prefix, 1)

\* NextHop::version
next_hop_version(next_hop) == segments(next_hop, 1)

\* NextHop::collection_length
next_hop_collection_length(next_hop) == segments(next_hop, 3)

\* NextHop::hash
next_hop_hash(next_hop) == SubSeq(next_hop, 9, 16)

\* a has_valid_prefix that looks at the prefix alone
has_valid_prefix_only(route) == SubSeq(route.prefix, 1, 2) = ADDR_PREFIX

\* Route::has_valid_prefix
has_valid_prefix(route) ==
    /\ SubSeq(route.prefix, 1, 2) = ADDR_PREFIX
    /\ SubSeq(route.next_hop, 1, 2) = ADDR_PREFIX

\* Route::hash
hash(route) == next_hop_hash(route.next_hop)

\* Route::collection_length
collection_length(route) == next_hop_collection_length(route.next_hop)

\* Route::sequence
sequence(route) == prefix_sequence(route.prefix)

\* ------------------------------------------------------------------------
\* RouteCollection (kv.rs)
\* ------------------------------------------------------------------------
\* the routes are in ascending order of sequence()
is_sorted(routes) ==
    \A i \in 1..(Len(routes) - 1) : sequence(routes[i]) <= sequence(routes[i + 1])

\* position (from 1) that a stable sort by sequence() gives routes[p]
sort_rank(routes, p) ==
    Cardinality({q \in 1..Len(routes) :
        \/ sequence(routes[q]) < sequence(routes[p])
        \/ (sequence(routes[q]) = sequence(routes[p]) /\ q <= p)})

\* Vec::sort_by_key(|r| r.sequence()): a stable sort
sort_by_key(routes) ==
    [j \in 1..Len(routes) |->
        routes[CHOOSE p \in 1..Len(routes) : sort_rank(routes, p) = j]]

\* RouteCollection::from_routes that keeps the order of arrival
from_routes_unsorted(routes) == routes

\* RouteCollection::from_routes (a stable sort leaves a sorted Vec as it is)
from_routes(routes) ==
    IF is_sorted(routes) THEN routes ELSE sort_by_key(routes)

\* the bytes that are cut into chunks: the two u16 lengths, then as_bytes
data_len(kv) == 4 + key_len(kv) + value_len(kv)

data_at(kv, p) ==
    IF p <= 2 THEN to_be_bytes(AsU16(key_len(kv)))[p]
    ELSE IF p <= 4 THEN to_be_bytes(AsU16(value_len(kv)))[p - 2]
    ELSE IF p <= 4 + key_len(kv) THEN serialized_at(kv.key, p - 4)
    ELSE serialized_at(kv.value, p - 4 - key_len(kv))

\* number of chunks itertools' chunks(CHUNK_SIZE) yields
num_chunks(kv) == (data_len(kv) + CHUNK_SIZE - 1) \div CHUNK_SIZE

\* chunk i (from 0), padded with zeros to CHUNK_SIZE bytes
chunk_padded(kv, i) ==
    [j \in 1..CHUNK_SIZE |->
        IF i * CHUNK_SIZE + j <= data_len(kv)
        THEN data_at(kv, i * CHUNK_SIZE + j) ELSE 0]

\* the Route built by iteration i (from 0) of the loop of try_from(&KeyValue)
encode_route(kv, i) ==
    [prefix   |-> ADDR_PREFIX \o to_be_bytes(AsU16(i)) \o chunk_padded(kv, i),
     next_hop |-> ADDR_PREFIX \o to_be_bytes(kv.version) \o to_be_bytes(AsU16(i))
                  \o to_be_bytes(AsU16(number_of_routes(kv))) \o kv.hash]

\* the Vec<Route> the loop has pushed when it ends
encode_routes(kv) == [i \in 1..num_chunks(kv) |-> encode_route(kv, i - 1)]

\* TryFrom<&KeyValue> for RouteCollection: always Ok
encode(kv) == from_routes(encode_routes(kv))

\* ------------------------------------------------------------------------
\* TryFrom<&RouteCollection> for KeyValue
\* ------------------------------------------------------------------------
Ok(kv) == [status |-> "ok", kv |-> {kv}, msg |-> ""]
DecodeError(msg) == [status |-> "err", kv |-> {}, msg |-> msg]
Panic(msg) == [status |-> "panic", kv |-> {}, msg |-> msg]

\* the payload bytes the loop collects from the routes
decode_bytes(routes) ==
    [p \in 1..(8 + 12 * (Len(routes) - 1)) |->
        IF p <= 8 THEN routes[1].prefix[8 + p]
        ELSE routes[2 + ((p - 9) \div 12)].prefix[5 + ((p - 9) % 12)]]

\* indexes (from 0) at which the loop returns an error
decode_bad(routes) ==
    {i \in 0..(Len(routes) - 1) :
        \/ ~has_valid_prefix(routes[i + 1])
        \/ sequence(routes[i + 1]) # AsU16(i)}

\* overflow_checks: the build panics on integer overflow (debug profile)
\* instead of wrapping (release profile)
decode(routes, overflow_checks) ==
    IF Len(routes) = 0 THEN DecodeError("At least one route should exist")
    ELSE
    LET first == routes[1]
        key_length == segments(first.prefix, 2)
        val_length == segments(first.prefix, 3)
        bad == decode_bad(routes)
        bytes == decode_bytes(routes)
    IN  IF overflow_checks /\ key_length + val_length > U16_MAX
        THEN Panic("attempt to add with overflow")
        ELSE IF bad # {}
        THEN LET i == CHOOSE j \in bad : \A l \in bad : j <= l
             IN  IF ~has_valid_prefix(routes[i + 1])
                 THEN DecodeError("Not a KVS-BGP Prefix")
                 ELSE DecodeError("Missing route sequence")
        ELSE IF key_length > Len(bytes)
        THEN Panic("split_at: mid > len")
        ELSE IF val_length > Len(bytes) - key_length
        THEN Panic("split_at: mid > len")
        ELSE
        LET key == deserialize(SubSeq(bytes, 1, key_length))
            value == deserialize(SubSeq(bytes, key_length + 1, key_length + val_length))
            version == next_hop_version(first.next_hop)
        IN  IF key = {} THEN DecodeError("Couldn't decode key")
            ELSE IF value = {} THEN DecodeError("Couldn't decode value")
            ELSE Ok(with_version(CHOOSE k \in key : TRUE,
                                 CHOOSE v \in value : TRUE, version))

\* ------------------------------------------------------------------------
\* KvStore and Update (store.rs)
\* ------------------------------------------------------------------------
\* an Update::with_both that swaps its two collections
with_both_swapped(announce, withdraw) ==
    [announce |-> {withdraw}, withdraw |-> {announce}]

\* Update::with_announce, Update::with_withdraw, Update::with_both
with_announce(announce) == [announce |-> {announce}, withdraw |-> {}]
with_withdraw(withdraw) == [announce |-> {}, withdraw |-> {withdraw}]
with_both(announce, withdraw) == [announce |-> {announce}, withdraw |-> {withdraw}]

\* KeyValue::update: the value is replaced, then the u16 version is
\* incremented.  At u16::MAX the increment panics when the build checks
\* overflow (the value is already replaced) and wraps to 0 when it does not.
update(kv, value, overflow_checks) ==
    IF kv.version = U16_MAX
    THEN IF overflow_checks
         THEN [kv |-> [kv EXCEPT !.value = value], panicked |-> TRUE]
         ELSE [kv |-> [kv EXCEPT !.value = value, !.version = 0], panicked |-> FALSE]
    ELSE [kv |-> [kv EXCEPT !.value = value, !.version = kv.version + 1],
          panicked |-> FALSE]

\* KvStore::new
KvStore_new == [inner |-> << >>, outbound |-> << >>]

\* KvStore::insert on the store st = [inner, outbound]
KvStore_insert(st, key, value, overflow_checks) ==
    IF key \in DOMAIN st.inner
    THEN LET existing == st.inner[key]
             withdraw == encode(existing)
             upd == update(existing, value, overflow_checks)
             announce == encode(upd.kv)
             stored == [k \in DOMAIN st.inner |->
                           IF k = key THEN upd.kv ELSE st.inner[k]]
         IN  IF upd.panicked
             THEN [inner |-> stored, outbound |-> st.outbound, res |-> "panic"]
             ELSE [inner |-> stored,
                   outbound |-> Append(st.outbound, with_both(announce, withdraw)),
                   res |-> "ok"]
    ELSE LET kv == new(key, value)
             announce == encode(kv)
         IN  [inner |-> [k \in DOMAIN st.inner \cup {key} |->
                            IF k = key THEN kv ELSE st.inner[k]],
              outbound |-> Append(st.outbound, with_announce(announce)),
              res |-> "ok"]

\* KvStore::get: Option<String>
KvStore_get(st, key) ==
    IF key \in DOMAIN st.inner THEN {st.inner[key].value} ELSE {}

\* KvStore::remove that reads the entry and leaves it in the map
KvStore_remove_kept(st, key) ==
    IF key \in DOMAIN st.inner
    THEN [inner |-> st.inner,
          outbound |-> Append(st.outbound, with_withdraw(encode(st.inner[key]))),
          ret |-> {st.inner[key].value}]
    ELSE [inner |-> st.inner, outbound |-> st.outbound, ret |-> {}]

\* KvStore::remove: ret is the Option<String> it returns
KvStore_remove(st, key) ==
    IF key \in DOMAIN st.inner
    THEN LET removed == st.inner[key]
             withdraw == encode(removed)
         IN  [inner |-> [k \in DOMAIN st.inner \ {key} |-> st.inner[k]],
              outbound |-> Append(st.outbound, with_withdraw(withdraw)),
              ret |-> {removed.value}]
    ELSE [inner |-> st.inner, outbound |-> st.outbound, ret |-> {}]

\* KvStore::insert_from_peer, which peering.rs calls with a decoded pair:
\* an entry whose version is at least the pair's is kept, otherwise the
\* pair is stored; nothing is queued on outbound.
KvStore_insert_from_peer(st, kv) ==
    IF kv.key \in DOMAIN st.inner /\ st.inner[kv.key].version >= kv.version
    THEN [inner |-> st.inner, outbound |-> st.outbound]
    ELSE [inner |-> [k \in DOMAIN st.inner \cup {kv.key} |->
                        IF k = kv.key THEN kv ELSE st.inner[k]],
          outbound |-> st.outbound]

\* ------------------------------------------------------------------------
\* TryFrom<&Update> for Route (kv.rs): a BGP update learned from a peer is
\* ev = [attr, nlri, next_hop]: attr is the path attribute found, nlri the
\* first announced or withdrawn route when it is an IPv6 prefix ({} when
\* not), next_hop the bytes of mp_reach.next_hop (MP_REACH_NLRI) or the
\* IPv6 NEXT_HOP attribute (MP_UNREACH_NLRI; << >> when there is none).
\* ------------------------------------------------------------------------
\* Route::from_addrs
from_addrs(prefix, next_hop) == [prefix |-> prefix, next_hop |-> next_hop]

NotAKvsRoute == [status |-> "err", route |-> {}]

Route_try_from(ev) ==
    IF ev.attr = "MP_REACH_NLRI"
    THEN IF ev.nlri = {} THEN NotAKvsRoute
         ELSE IF Len(ev.next_hop) < 16 THEN [status |-> "panic", route |-> {}]
         ELSE LET route == from_addrs(CHOOSE a \in ev.nlri : TRUE,
                                      SubSeq(ev.next_hop, 1, 16))
              IN  IF has_valid_prefix(route)
                  THEN [status |-> "ok", route |-> {route}] ELSE NotAKvsRoute
    ELSE IF ev.attr = "MP_UNREACH_NLRI"
    THEN IF Len(ev.next_hop) # 16 THEN NotAKvsRoute
         ELSE IF ev.nlri = {} THEN NotAKvsRoute
         ELSE LET route == from_addrs(CHOOSE a \in ev.nlri : TRUE, ev.next_hop)
              IN  IF has_valid_prefix(route)
                  THEN [status |-> "ok", route |-> {route}] ELSE NotAKvsRoute
    ELSE NotAKvsRoute

\* ------------------------------------------------------------------------
\* State
\* ------------------------------------------------------------------------
VARIABLES
    overflow_checks, \* the build panics on integer overflow (fixed per run)
    inner,           \* KvStore.inner: HashMap<String, KeyValue>
    outbound,        \* KvStore.outbound: VecDeque<Update>
    pending,         \* pending_routes of BgpPeerings::run: HashMap<u64, Vec<Route>>
    running,         \* BgpPeerings::run has not panicked
    last,            \* the operation applied last and what it returned
    observed,        \* history: per key, the highest version seen from any source
    codec,           \* the codec call applied last, its input and its result
    channel,         \* the mpsc channel of main: Updates sent and not yet received
    rib,             \* the calls of RIB::insert_from_api, in the order they were made
    heard,           \* the learned update handled last, and the parity of their number
    applied,         \* history: the Updates of the API mutations, in lock order
    outbound_tx,     \* the senders of the channel: some alive, and the parity of
                     \* the number of times recv() returned None
    pc,              \* where each API handler and the sync loop stand at the locks
    store_lock       \* Arc<RwLock<KvStore>>: the task that holds the write guard
                     \* and the tasks that wait for it, in order of arrival

vars == <<overflow_checks, inner, outbound, pending, running, last, observed, codec,
          channel, rib, heard, applied, outbound_tx, pc, store_lock>>

lock_vars == <<pc, store_lock>>

sync_vars == <<channel, rib, heard, applied, outbound_tx, lock_vars>>

store_vars == <<inner, outbound, pending, running, last, observed, sync_vars>>

store == [inner |-> inner, outbound |-> outbound]

NoOp == [op |-> "none", key |-> << >>, value |-> << >>, had |-> FALSE,
         res |-> "", kv |-> {}]

Idle == [op |-> "idle"]

\* ------------------------------------------------------------------------
\* Inputs
\* ------------------------------------------------------------------------
\* keys and values of the local API calls
Keys == {<<97>>, <<98>>}
Values == {<<120>>, <<121>>}

\* pairs that peers announce
PeerVersions == (1..MaxLowVersion) \cup {U16_MAX}
PeerKVs == {with_version(<<97>>, <<122>>, v) : v \in PeerVersions}

RoutesOf(kvs) == UNION {{encode(kv)[i] : i \in 1..Len(encode(kv))} : kv \in kvs}

Announce(route) ==
    [attr |-> "MP_REACH_NLRI", nlri |-> {route.prefix}, next_hop |-> route.next_hop]

Withdraw(route) ==
    [attr |-> "MP_UNREACH_NLRI", nlri |-> {route.prefix}, next_hop |-> route.next_hop]

InboundEvents == {Announce(r) : r \in RoutesOf(PeerKVs)}

Max(a, b) == IF a >= b THEN a ELSE b

Observe(obs, key, version) ==
    [k \in DOMAIN obs \cup {key} |->
        IF k = key
        THEN (IF key \in DOMAIN obs THEN Max(obs[key], version) ELSE version)
        ELSE obs[k]]

\* ------------------------------------------------------------------------
\* Store and sync-loop actions
\* ------------------------------------------------------------------------
StoreInit ==
    /\ inner = KvStore_new.inner
    /\ outbound = KvStore_new.outbound
    /\ pending = << >>
    /\ running = TRUE
    /\ last = NoOp
    /\ observed = << >>

\* the channel of main and the locals of BgpPeerings::run
SyncInit ==
    /\ channel = << >>
    /\ rib = << >>
    /\ heard = [n |-> 0, ev |-> {}]
    /\ applied = << >>
    /\ outbound_tx = [alive |-> TRUE, none |-> 0]
    /\ pc = [h1 |-> "idle", h2 |-> "idle", loop |-> "top", update |-> {}]
    /\ store_lock = [holder |-> "none", queue |-> << >>]

Init ==
    /\ overflow_checks \in BOOLEAN
    /\ StoreInit
    /\ SyncInit
    /\ codec = Idle

\* a call of KvStore::insert(key, value)
Insert(key, value) ==
    /\ running
    /\ Len(outbound) < MaxOutbound
    /\ LET r == KvStore_insert(store, key, value, overflow_checks)
       IN  /\ inner' = r.inner
           /\ outbound' = r.outbound
           /\ last' = [op |-> "insert", key |-> key, value |-> value,
                       had |-> key \in DOMAIN inner, res |-> r.res, kv |-> {}]
           /\ observed' = Observe(observed, key, r.inner[key].version)
    /\ UNCHANGED <<overflow_checks, pending, running, codec, sync_vars>>

\* a call of KvStore::remove(key)
Remove(key) ==
    /\ running
    /\ Len(outbound) < MaxOutbound
    /\ LET r == KvStore_remove(store, key)
       IN  /\ inner' = r.inner
           /\ outbound' = r.outbound
           /\ last' = [op |-> "remove", key |-> key, value |-> << >>,
                       had |-> key \in DOMAIN inner,
                       res |-> IF r.ret = {} THEN "none" ELSE "some", kv |-> r.ret]
    /\ UNCHANGED <<overflow_checks, pending, running, observed, codec, sync_vars>>

\* the inbound branch of the select! of BgpPeerings::run, for one update
\* learned from a peer: what it does to the store and to pending_routes
InboundBranch(ev) ==
    /\ running
    /\ LET t == Route_try_from(ev)
       IN  IF t.status = "panic"
           THEN /\ running' = FALSE
                /\ last' = [NoOp EXCEPT !.op = "inbound", !.res = "panic"]
                /\ UNCHANGED <<inner, outbound, pending, observed>>
           ELSE IF t.status = "err"
           THEN /\ last' = [NoOp EXCEPT !.op = "inbound", !.res = "not_kvs"]
                /\ UNCHANGED <<inner, outbound, pending, running, observed>>
           ELSE
           LET route == CHOOSE r \in t.route : TRUE
               h == hash(route)
               kv_length == collection_length(route)
               routes == Append(IF h \in DOMAIN pending THEN pending[h] ELSE << >>,
                                route)
           IN  IF Len(routes) = kv_length
               THEN LET collection == from_routes(routes)
                        d == decode(collection, overflow_checks)
                    IN  /\ pending' = [x \in DOMAIN pending \ {h} |-> pending[x]]
                        /\ IF d.status = "ok"
                           THEN LET kv == CHOOSE x \in d.kv : TRUE
                                    r == KvStore_insert_from_peer(store, kv)
                                IN  /\ inner' = r.inner
                                    /\ outbound' = r.outbound
                                    /\ running' = running
                                    /\ observed' = Observe(observed, kv.key, kv.version)
                                    /\ last' = [op |-> "inbound", key |-> kv.key,
                                                value |-> kv.value,
                                                had |-> kv.key \in DOMAIN inner,
                                                res |-> "delivered", kv |-> {kv}]
                           ELSE /\ running' = (d.status # "panic")
                                /\ last' = [NoOp EXCEPT !.op = "inbound",
                                                        !.res = d.status]
                                /\ UNCHANGED <<inner, outbound, observed>>
               ELSE /\ Len(routes) <= MaxPending
                    /\ pending' = [x \in DOMAIN pending \cup {h} |->
                                      IF x = h THEN routes ELSE pending[x]]
                    /\ last' = [NoOp EXCEPT !.op = "inbound", !.res = "pending"]
                    /\ UNCHANGED <<inner, outbound, running, observed>>
    /\ UNCHANGED <<overflow_checks, codec>>

\* the inbound branch, which touches neither the channel nor the RIB
Inbound(ev) ==
    /\ InboundBranch(ev)
    /\ UNCHANGED sync_vars

Next ==
    \/ \E key \in Keys, value \in Values : Insert(key, value)
    \/ \E key \in Keys : Remove(key)
    \/ \E ev \in InboundEvents : Inbound(ev)

Spec == Init /\ [][Next]_vars

\* a store in which local inserts have brought the key "a" to one of the two
\* highest versions of the 16-bit field
InitHighVersion ==
    /\ overflow_checks \in BOOLEAN
    /\ \E value \in Values, version \in {U16_MAX - 1, U16_MAX} :
          inner = (<<97>> :> with_version(<<97>>, value, version))
    /\ outbound = << >>
    /\ pending = << >>
    /\ running = TRUE
    /\ last = NoOp
    /\ observed = << >>
    /\ SyncInit
    /\ codec = Idle

\* local API calls only
NextLocal ==
    \/ \E key \in Keys, value \in Values : Insert(key, value)
    \/ \E key \in Keys : Remove(key)

SpecHighVersion == InitHighVersion /\ [][NextLocal]_vars

\* ------------------------------------------------------------------------
\* The API handlers, the channel and both branches of the sync loop
\* ------------------------------------------------------------------------
\* API mutations one run goes through
MaxApplied == 2

\* key and values of the API calls; the peers announce the same key
SyncKeys == {<<97>>}
SyncValues == {<<120>>, <<121>>}

\* the pair peers announce at one version, and its rewrite at the next
SyncPeerKVs == {with_version(<<97>>, <<122>>, 1), with_version(<<97>>, <<121>>, 2)}

\* 2001:db8::, an address of other BGP traffic
OtherAddr == <<32, 1, 13, 184, 0, 0, 0, 0, 0, 0, 0, 0, 0, 0, 0, 0>>

\* learned updates that are not routes of this store: the prefix or the
\* next-hop lacks the magic, as an announce and as a withdraw
NotOurs ==
    LET r == encode(with_version(<<97>>, <<122>>, 1))[1]
    IN  {Announce(from_addrs(OtherAddr, r.next_hop)),
         Announce(from_addrs(r.prefix, OtherAddr)),
         Withdraw(from_addrs(r.prefix, OtherAddr))}

\* an MP_REACH_NLRI whose next-hop field holds an IPv4 address
ShortNextHop ==
    [attr |-> "MP_REACH_NLRI", nlri |-> {OtherAddr}, next_hop |-> <<10, 0, 0, 1>>]

\* the withdraw of the route built first for the older pair
SyncWithdraws == {Withdraw(encode(with_version(<<97>>, <<122>>, 1))[1])}

\* what the peers send while the API is in use: the older pair, announced
\* route by route, and the withdraw
SyncEvents ==
    {Announce(r) : r \in RoutesOf({with_version(<<97>>, <<122>>, 1)})}
        \cup SyncWithdraws

\* what the peers send to the reassembly of pending_routes
BufferEvents ==
    {Announce(r) : r \in RoutesOf(SyncPeerKVs)}
        \cup SyncWithdraws \cup NotOurs \cup {ShortNextHop}

\* a recv that takes the Update sent last
recv_newest(ch) == [item |-> ch[Len(ch)], rest |-> SubSeq(ch, 1, Len(ch) - 1)]

\* UnboundedReceiver::recv on a channel that holds an Update: the oldest
recv(ch) == [item |-> Head(ch), rest |-> Tail(ch)]

\* the calls of RIB::insert_from_api the outbound branch makes for one
\* Update: the routes of announce in collection order, then those of withdraw
rib_calls(kind, collection) ==
    IF collection = {} THEN << >>
    ELSE LET routes == CHOOSE c \in collection : TRUE
         IN  [i \in 1..Len(routes) |->
                 [kind |-> kind, prefix |-> routes[i].prefix,
                  next_hop |-> routes[i].next_hop]]

insert_from_api(received) ==
    rib_calls("announce", received.announce) \o rib_calls("withdraw", received.withdraw)

\* api::insert_pair: KvStore::insert under the write lock, then the Update
\* it built is sent on the channel (the lock is held until the handler ends)
insert_pair(key, value) ==
    /\ running
    /\ outbound_tx.alive
    /\ Len(applied) < MaxApplied
    /\ LET r == KvStore_insert(store, key, value, overflow_checks)
           sent == r.outbound[Len(r.outbound)]
       IN  /\ inner' = r.inner
           /\ outbound' = r.outbound
           /\ last' = [op |-> "insert", key |-> key, value |-> value,
                       had |-> key \in DOMAIN inner, res |-> r.res, kv |-> {}]
           /\ observed' = Observe(observed, key, r.inner[key].version)
           /\ IF r.res = "ok"
              THEN /\ channel' = Append(channel, sent)
                   /\ applied' = Append(applied, sent)
              ELSE UNCHANGED <<channel, applied>>
    /\ UNCHANGED <<overflow_checks, pending, running, codec, rib, heard, outbound_tx>>

\* api::insert_pair as one step, the store lock free before and after
InsertPair(key, value) == insert_pair(key, value) /\ UNCHANGED lock_vars

\* api::remove_pair: KvStore::remove under the write lock, then the Update
\* is sent on the channel when the key was present
remove_pair(key) ==
    /\ running
    /\ outbound_tx.alive
    /\ Len(applied) < MaxApplied
    /\ LET r == KvStore_remove(store, key)
           sent == r.outbound[Len(r.outbound)]
       IN  /\ inner' = r.inner
           /\ outbound' = r.outbound
           /\ last' = [op |-> "remove", key |-> key, value |-> << >>,
                       had |-> key \in DOMAIN inner,
                       res |-> IF r.ret = {} THEN "none" ELSE "some", kv |-> r.ret]
           /\ IF r.ret # {}
              THEN /\ channel' = Append(channel, sent)
                   /\ applied' = Append(applied, sent)
              ELSE UNCHANGED <<channel, applied>>
    /\ UNCHANGED <<overflow_checks, pending, running, observed, codec, rib, heard,
                   outbound_tx>>

\* api::remove_pair as one step, the store lock free before and after
RemovePair(key) == remove_pair(key) /\ UNCHANGED lock_vars

\* an inbound branch that advertises the routes of the pair it delivers
SyncInbound_advertising(ev) ==
    /\ InboundBranch(ev)
    /\ heard' = [n |-> 1 - heard.n, ev |-> {ev}]
    /\ rib' = IF last'.res = "delivered"
              THEN rib \o rib_calls("announce",
                                    {encode(CHOOSE kv \in last'.kv : TRUE)})
              ELSE rib
    /\ UNCHANGED <<channel, applied, outbound_tx, lock_vars>>

\* the inbound branch of the select!, for one learned update
inbound_branch(ev) ==
    /\ InboundBranch(ev)
    /\ heard' = [n |-> 1 - heard.n, ev |-> {ev}]
    /\ UNCHANGED <<channel, rib, applied, outbound_tx>>

\* the inbound branch as one step, the store lock free before and after
SyncInbound(ev) == inbound_branch(ev) /\ UNCHANGED lock_vars

\* the outbound branch of the select!, for one Update received
outbound_branch ==
    /\ running
    /\ channel # << >>
    /\ LET received == recv(channel)
       IN  /\ channel' = received.rest
           /\ rib' = rib \o insert_from_api(received.item)
    /\ last' = [NoOp EXCEPT !.op = "outbound"]
    /\ UNCHANGED <<overflow_checks, inner, outbound, pending, running, observed,
                   codec, heard, applied, outbound_tx>>

\* the outbound branch as one step
Outbound == outbound_branch /\ UNCHANGED lock_vars

NextSync ==
    \/ \E key \in SyncKeys, value \in SyncValues : InsertPair(key, value)
    \/ \E key \in SyncKeys : RemovePair(key)
    \/ \E ev \in SyncEvents : SyncInbound(ev)
    \/ Outbound

SpecSync == Init /\ [][NextSync]_vars

\* the route with the N field of its next-hop set to n
with_collection_length(route, n) ==
    [route EXCEPT !.next_hop =
        SubSeq(route.next_hop, 1, 6) \o to_be_bytes(n) \o SubSeq(route.next_hop, 9, 16)]

\* the route with the key hash of its next-hop set to h
with_hash(route, h) ==
    [route EXCEPT !.next_hop = SubSeq(route.next_hop, 1, 8) \o h]

\* pairs a peer encodes: one of two routes, one of three routes
TwoRoutePair == with_version(<<97>>, <<122>>, 1)
ThreeRoutePair == with_version(<<98>>, <<120, 120, 120, 120, 120, 120, 120, 120>>, 1)

\* the route built first of TwoRoutePair announced alone with N = 1: its
\* header asks for more payload than the route carries
Truncated == Announce(with_collection_length(encode(TwoRoutePair)[1], 1))

\* the route built second of TwoRoutePair announced alone with N = 1: a
\* complete collection without the sequence number 0
Headless == Announce(with_collection_length(encode(TwoRoutePair)[2], 1))

\* a route that carries N = 0
ZeroLength == Announce(with_collection_length(encode(TwoRoutePair)[1], 0))

\* the routes of TwoRoutePair announced under the key hash of another key
ForeignHash ==
    {Announce(with_hash(r, get_hash(<<99>>))) : r \in RoutesOf({TwoRoutePair})}

\* what peers may announce: any next-hop that carries the magic
MalformedEvents ==
    {Announce(r) : r \in RoutesOf({TwoRoutePair, ThreeRoutePair})}
        \cup {Truncated, Headless, ZeroLength} \cup ForeignHash

\* the sync loop fed by peers that announce well-formed and malformed routes
NextMalformed == \E ev \in MalformedEvents : SyncInbound(ev)

SpecMalformed == Init /\ [][NextMalformed]_vars

\* the API server task ends: the filters of api::get_routes, which own the
\* clones of outbound_tx, are dropped and no handler runs any more
DropSenders ==
    /\ outbound_tx.alive
    /\ outbound_tx' = [outbound_tx EXCEPT !.alive = FALSE]
    /\ last' = [NoOp EXCEPT !.op = "drop_senders"]
    /\ UNCHANGED <<overflow_checks, inner, outbound, pending, running, observed,
                   codec, channel, rib, heard, applied, lock_vars>>

\* the outbound branch of the select! when every sender is gone and the
\* channel is empty: recv() returns None, `if let Some(update)` does not
\* match, and the loop goes on to its next iteration
OutboundClosed ==
    /\ running
    /\ ~outbound_tx.alive
    /\ channel = << >>
    /\ outbound_tx' = [outbound_tx EXCEPT !.none = 1 - @]
    /\ last' = [NoOp EXCEPT !.op = "outbound_none"]
    /\ UNCHANGED <<overflow_checks, inner, outbound, pending, running, observed,
                   codec, channel, rib, heard, applied, lock_vars>>

\* the sync loop while the API server runs and after it has ended
NextShutdown ==
    \/ NextSync
    \/ DropSenders
    \/ OutboundClosed

\* select! polls both branches: an outbound branch that stays ready is
\* taken eventually
SpecShutdown ==
    Init /\ [][NextShutdown]_vars /\ WF_vars(Outbound) /\ WF_vars(OutboundClosed)

\* the sync loop with the API in use while peers announce well-formed routes
\* and a truncated one
NextFair ==
    \/ NextSync
    \/ SyncInbound(Truncated)

\* select! polls both branches: an outbound branch that stays ready is
\* taken eventually, whatever arrives inbound
SpecFair == Init /\ [][NextFair]_vars /\ WF_vars(Outbound)

\* ------------------------------------------------------------------------
\* The API handlers and the sync loop at the locks
\* ------------------------------------------------------------------------
\* the API handler tasks that run at the same time
Handlers == {"h1", "h2"}

\* a send that waits for room in a channel that holds one Update
send_ready_bounded(ch) == Len(ch) < 1

\* UnboundedSender::send never waits
send_ready(ch) == TRUE

\* the Vec<Route> pending_routes holds for a key hash
pending_entry_of(h) == IF h \in DOMAIN pending THEN pending[h] ELSE << >>

\* the learned updates of the sync loop: the routes of one pair
LockEvents == {Announce(r) : r \in RoutesOf({TwoRoutePair})}

\* the inbound branch reaches kv_store.write().await for this update
wants_store(ev) ==
    LET t == Route_try_from(ev)
        route == CHOOSE r \in t.route : TRUE
        routes == Append(pending_entry_of(hash(route)), route)
    IN  /\ t.status = "ok"
        /\ Len(routes) = collection_length(route)
        /\ decode(from_routes(routes), overflow_checks).status = "ok"

\* RwLock::write() is called: the task joins the queue of the lock
enqueue(task) == [store_lock EXCEPT !.queue = Append(@, task)]

\* the write guard is dropped
release == [store_lock EXCEPT !.holder = "none"]

\* a request arrives: the handler calls store.write() and awaits it
Request(h) ==
    /\ running
    /\ outbound_tx.alive
    /\ pc[h] = "idle"
    /\ Len(applied) + Cardinality({t \in Handlers : pc[t] # "idle"}) < MaxApplied
    /\ pc' = [pc EXCEPT ![h] = "waiting"]
    /\ store_lock' = enqueue(h)
    /\ UNCHANGED <<overflow_checks, inner, outbound, pending, running, last, observed,
                   codec, channel, rib, heard, applied, outbound_tx>>

\* the lock is free and the task is the first of the queue: it gets the guard
Acquire(task) ==
    /\ pc[task] = "waiting"
    /\ store_lock.holder = "none"
    /\ store_lock.queue # << >>
    /\ Head(store_lock.queue) = task
    /\ pc' = [pc EXCEPT ![task] = "holding"]
    /\ store_lock' = [holder |-> task, queue |-> Tail(store_lock.queue)]
    /\ UNCHANGED <<overflow_checks, inner, outbound, pending, running, last, observed,
                   codec, channel, rib, heard, applied, outbound_tx>>

\* the handler, holding the guard, mutates the store and sends the Update;
\* the guard is dropped at the end of the statement
HandlerCall(h) ==
    /\ pc[h] = "holding"
    /\ send_ready(channel)
    /\ \/ \E key \in SyncKeys, value \in SyncValues : insert_pair(key, value)
       \/ \E key \in SyncKeys : remove_pair(key)
    /\ pc' = [pc EXCEPT ![h] = "idle"]
    /\ store_lock' = release

\* the top of the loop: self.sessions.write().await, which no other task takes
LoopTop ==
    /\ running
    /\ pc.loop = "top"
    /\ pc' = [pc EXCEPT !.loop = "select"]
    /\ UNCHANGED <<overflow_checks, inner, outbound, pending, running, last, observed,
                   codec, channel, rib, heard, applied, outbound_tx, store_lock>>

\* the inbound branch for an update that does not reach the store; the
\* session guard is dropped at the end of the iteration
LoopInbound(ev) ==
    /\ pc.loop = "select"
    /\ ~wants_store(ev)
    /\ inbound_branch(ev)
    /\ pc' = [pc EXCEPT !.loop = "top"]
    /\ UNCHANGED store_lock

\* the inbound branch decoded a pair: it calls kv_store.write() and awaits
\* it, holding the session guard
LoopWantsStore(ev) ==
    /\ running
    /\ pc.loop = "select"
    /\ wants_store(ev)
    /\ pc' = [pc EXCEPT !.loop = "waiting", !.update = {ev}]
    /\ store_lock' = enqueue("loop")
    /\ UNCHANGED <<overflow_checks, inner, outbound, pending, running, last, observed,
                   codec, channel, rib, heard, applied, outbound_tx>>

\* the loop, holding both guards, passes the pair to insert_from_peer and
\* drops the guards
LoopDeliver ==
    /\ pc.loop = "holding"
    /\ \E ev \in pc.update : inbound_branch(ev)
    /\ pc' = [pc EXCEPT !.loop = "top", !.update = {}]
    /\ store_lock' = release

\* the outbound branch; the session guard is dropped at the end of the
\* iteration
LoopOutbound ==
    /\ pc.loop = "select"
    /\ outbound_branch
    /\ pc' = [pc EXCEPT !.loop = "top"]
    /\ UNCHANGED store_lock

NextLocks ==
    \/ \E h \in Handlers : Request(h)
    \/ \E task \in Handlers \cup {"loop"} : Acquire(task)
    \/ \E h \in Handlers : HandlerCall(h)
    \/ LoopTop
    \/ \E ev \in LockEvents : LoopInbound(ev)
    \/ \E ev \in LockEvents : LoopWantsStore(ev)
    \/ LoopDeliver
    \/ LoopOutbound

\* the step of HandlerCall(h) as the locks see it: its guards (those of
\* insert_pair and remove_pair included) and its change of pc
HandlerReturns(h) ==
    /\ pc[h] = "holding"
    /\ send_ready(channel)
    /\ running /\ outbound_tx.alive /\ Len(applied) < MaxApplied
    /\ pc' = [pc EXCEPT ![h] = "idle"]

\* the step of LoopDeliver as the locks see it
LoopDelivered ==
    /\ pc.loop = "holding"
    /\ running
    /\ pc' = [pc EXCEPT !.loop = "top", !.update = {}]

\* the runtime polls every task that can proceed, and the RwLock hands the
\* guard to its waiters in the order they arrived: a task that can take
\* the guard takes it, and a task that holds it runs to the end of its
\* critical section
SpecLocks ==
    /\ Init
    /\ [][NextLocks]_vars
    /\ \A task \in Handlers \cup {"loop"} : WF_vars(Acquire(task))
    /\ \A h \in Handlers : WF_pc(HandlerReturns(h))
    /\ WF_pc(LoopDelivered)

\* the sync loop with no API call made: learned updates only
NextBuffer == \E ev \in BufferEvents : SyncInbound(ev)

SpecBuffer == Init /\ [][NextBuffer]_vars

\* ------------------------------------------------------------------------
\* The codec applied to bounded inputs
\* ------------------------------------------------------------------------
\* strings of at most n characters over the alphabet
RECURSIVE Strings(_, _)
Strings(alphabet, n) ==
    IF n = 0 THEN {<< >>}
    ELSE LET shorter == Strings(alphabet, n - 1)
         IN  shorter \cup {Append(s, c) : s \in shorter, c \in alphabet}

CodecVersions == (0..MaxLowVersion) \cup {U16_MAX - 1, U16_MAX}

CodecKVs ==
    {with_version(k, v, ver) : k \in Strings({97, 98}, MaxStrLen),
                               v \in Strings({120}, 2 * MaxStrLen),
                               ver \in CodecVersions}

\* the pair of the test round_trip: KeyValue::new("MyKey", "Some Value")
S4Key == <<77, 121, 75, 101, 121>>
S4Value == <<83, 111, 109, 101, 32, 86, 97, 108, 117, 101>>
S4Pair == new(S4Key, S4Value)

\* a String of n characters 'a'
Fill(n) == SubSeq([i \in 1..n |-> 97], 1, n)

\* lengths in characters of the long keys and values: around the largest
\* length the u16 length fields hold (65535 - 8) and around the largest
\* value that fits 65535 routes next to a key of one character
LargeKeyChars == {1, 32760, 65527, 65528}
LargeValueChars == {1, 32759, 32760, 65527, 65528, 786399, 786400}
\* the long pairs that are decoded again
RoundTripChars == {32759, 32760}

\* Vec::remove(i) as the test missing_route slices it, i from 0
without_route(routes, i) ==
    [j \in 1..(Len(routes) - 1) |-> IF j <= i THEN routes[j] ELSE routes[j + 1]]

\* RouteCollection::try_from(&kv) of a bounded pair
CodecEncode(kv) ==
    /\ codec.op = "idle"
    /\ codec' = [op |-> "encode", kv |-> kv, routes |-> encode(kv)]
    /\ UNCHANGED <<overflow_checks, store_vars>>

\* KeyValue::try_from(&collection) of the collection encoded last
CodecDecode ==
    /\ codec.op = "encode"
    /\ codec' = [op |-> "decode", kv |-> codec.kv, routes |-> codec.routes,
                 res |-> decode(codec.routes, overflow_checks)]
    /\ UNCHANGED <<overflow_checks, store_vars>>

\* the collection encoded last is decoded with route i (from 0) left out
CodecMissing(i) ==
    /\ codec.op = "encode"
    /\ i < Len(codec.routes)
    /\ LET missing_rc == from_routes(without_route(codec.routes, i))
       IN  codec' = [op |-> "missing", kv |-> codec.kv, routes |-> codec.routes,
                     removed |-> i, res |-> decode(missing_rc, overflow_checks)]
    /\ UNCHANGED <<overflow_checks, store_vars>>

\* the next-hop fields that a peer may set at will
NextHopFields == {"version", "collection_length", "hash", "collection_length_all"}

\* the route with one field of its next-hop changed to another value
\* (Route::try_from accepts any next-hop that carries the magic)
with_field(route, field) ==
    LET nh == route.next_hop
    IN  [route EXCEPT !.next_hop =
            IF field = "version"
            THEN SubSeq(nh, 1, 2) \o to_be_bytes(AsU16(next_hop_version(nh) + 1))
                 \o SubSeq(nh, 5, 16)
            ELSE IF field = "hash"
            THEN SubSeq(nh, 1, 8) \o <<(nh[9] + 1) % 256>> \o SubSeq(nh, 10, 16)
            ELSE SubSeq(nh, 1, 6)
                 \o to_be_bytes(AsU16(next_hop_collection_length(nh) + 1))
                 \o SubSeq(nh, 9, 16)]

\* the collection encoded last is decoded with a next-hop field of route i
\* (from 0) changed, or with the N of every route changed
CodecDecodeChanged(i, field) ==
    /\ codec.op = "encode"
    /\ i < Len(codec.routes)
    /\ field = "collection_length_all" => i = 0
    /\ LET changed == [j \in 1..Len(codec.routes) |->
                          IF j = i + 1 \/ field = "collection_length_all"
                          THEN with_field(codec.routes[j], field)
                          ELSE codec.routes[j]]
           rc == from_routes(changed)
       IN  codec' = [op |-> "changed", kv |-> codec.kv, routes |-> codec.routes,
                     field |-> field, decoded |-> rc,
                     res |-> decode(rc, overflow_checks)]
    /\ UNCHANGED <<overflow_checks, store_vars>>

\* RouteCollection::try_from(&kv) of a long pair; of the collection the
\* state keeps the number of routes, the fields of the route built first
\* and the sequence number of the route built last
CodecEncodeLarge(key_chars, value_chars, version) ==
    /\ codec.op = "idle"
    /\ LET kv == with_version(Fill(key_chars), Fill(value_chars), version)
           count == num_chunks(kv)
           first == encode_route(kv, 0)
           built_last == encode_route(kv, count - 1)
       IN  codec' = [op |-> "encode_large", status |-> "ok",
                     key_chars |-> key_chars, value_chars |-> value_chars,
                     version |-> version,
                     key_len |-> key_len(kv), value_len |-> value_len(kv),
                     count |-> count,
                     num_routes |-> number_of_routes(kv),
                     n_field |-> collection_length(first),
                     key_len_field |-> segments(first.prefix, 2),
                     val_len_field |-> segments(first.prefix, 3),
                     last_seq |-> sequence(built_last)]
    /\ UNCHANGED <<overflow_checks, store_vars>>

\* the long pair encoded last is encoded and decoded again
CodecRoundTripLarge ==
    /\ codec.op = "encode_large"
    /\ codec.key_chars \in RoundTripChars
    /\ codec.value_chars \in RoundTripChars
    /\ LET kv == with_version(Fill(codec.key_chars), Fill(codec.value_chars),
                              codec.version)
           d == decode(encode(kv), overflow_checks)
       IN  codec' = [op |-> "round_trip_large", status |-> d.status,
                     key_chars |-> codec.key_chars,
                     value_chars |-> codec.value_chars,
                     version |-> codec.version,
                     key_len |-> codec.key_len, value_len |-> codec.value_len,
                     count |-> codec.count,
                     equal |-> d.kv = {kv}]
    /\ UNCHANGED <<overflow_checks, store_vars>>

NextCodec ==
    \/ \E kv \in CodecKVs \cup {S4Pair} : CodecEncode(kv)
    \/ CodecDecode
    \/ \E i \in 0..(2 * MaxStrLen) : CodecMissing(i)
    \/ \E i \in 0..(2 * MaxStrLen), field \in NextHopFields :
          CodecDecodeChanged(i, field)
    \/ \E kc \in LargeKeyChars, vc \in LargeValueChars, ver \in CodecVersions :
          CodecEncodeLarge(kc, vc, ver)
    \/ CodecRoundTripLarge

SpecCodec == Init /\ [][NextCodec]_vars

\* ------------------------------------------------------------------------
\* Properties
\* ------------------------------------------------------------------------
\* the store after the step
store_next == [inner |-> inner', outbound |-> outbound']

\* the pair does not fit the 16-bit fields of the routes
exceeds_capacity(key_length, value_length, count) ==
    key_length > U16_MAX \/ value_length > U16_MAX \/ count > U16_MAX

\* C1: round trip. Decoding the collection that encoding a pair within the
\* capacity limit produced succeeds and yields a pair with the same key,
\* value, version and key hash.
C1_RoundTrip ==
    /\ codec.op = "decode" => codec.res = Ok(codec.kv)
    /\ (codec.op = "round_trip_large"
           /\ ~exceeds_capacity(codec.key_len, codec.value_len, codec.count))
       => (codec.status = "ok" /\ codec.equal)

\* C2: every collection encode produces is sorted ascending by sequence
\* number, its sequence numbers are exactly 0..N-1, and every route carries
\* the pair's version and key hash and the number of routes N.
C2_Collection ==
    /\ codec.op = "encode" =>
          LET routes == codec.routes
              N == Len(routes)
          IN  /\ \A i \in 1..N :
                    /\ sequence(routes[i]) = i - 1
                    /\ segments(routes[i].next_hop, 2) = i - 1
                    /\ next_hop_version(routes[i].next_hop) = codec.kv.version
                    /\ hash(routes[i]) = codec.kv.hash
                    /\ collection_length(routes[i]) = N
                    /\ has_valid_prefix(routes[i])
              /\ is_sorted(routes)
    /\ codec.op = "encode_large" =>
          /\ codec.n_field = codec.count
          /\ codec.last_seq = codec.count - 1

\* C3: insert(key, value) on an absent key stores one new entry at version
\* 0, leaves every other entry as it was, queues an Update with the encoding
\* of the new pair as announce and no withdraw, and get(key) then returns
\* value.
C3_InsertAbsent ==
    [][(last'.op = "insert" /\ ~last'.had) =>
          LET key == last'.key
              value == last'.value
          IN  /\ key \notin DOMAIN inner
              /\ DOMAIN inner' = DOMAIN inner \cup {key}
              /\ inner'[key].key = key
              /\ inner'[key].value = value
              /\ inner'[key].version = 0
              /\ \A k \in DOMAIN inner : inner'[k] = inner[k]
              /\ outbound' = Append(outbound,
                     [announce |-> {encode([key |-> key, value |-> value,
                                            hash |-> get_hash(key), version |-> 0])},
                      withdraw |-> {}])
              /\ KvStore_get(store_next, key) = {value}
              /\ last'.res = "ok"]_vars

C3_Witness ==
    /\ last.op = "insert" /\ ~last.had /\ last.res = "ok"
    /\ last.key \in DOMAIN inner
    /\ inner[last.key].version = 0
    /\ Len(outbound) > 0
    /\ outbound[Len(outbound)].withdraw = {}
    /\ outbound[Len(outbound)].announce # {}

\* C4: insert(key, value) on a key present at version v with value old
\* queues an Update whose withdraw is the encoding of (key, old, v) and
\* whose announce is the encoding of (key, value, v + 1); the store then
\* holds one entry for key at version v + 1 and get(key) returns value.
C4_InsertPresent ==
    [][(last'.op = "insert" /\ last'.had) =>
          LET key == last'.key
              value == last'.value
              old == inner[key]
          IN  /\ DOMAIN inner' = DOMAIN inner
              /\ inner'[key].version = old.version + 1
              /\ inner'[key].value = value
              /\ \A k \in DOMAIN inner \ {key} : inner'[k] = inner[k]
              /\ outbound' = Append(outbound,
                     [announce |-> {encode([old EXCEPT !.value = value,
                                                       !.version = old.version + 1])},
                      withdraw |-> {encode(old)}])
              /\ KvStore_get(store_next, key) = {value}]_vars

\* C5: remove(key) of an absent key returns none, queues no Update and
\* leaves the store as it was; remove(key) of a present key deletes that
\* entry only, queues an Update with no announce and the encoding of the
\* removed pair as withdraw, and get(key) then returns absent.
C5_Remove ==
    [][last'.op = "remove" =>
          LET key == last'.key
          IN  IF key \notin DOMAIN inner
              THEN /\ last'.res = "none"
                   /\ inner' = inner
                   /\ outbound' = outbound
              ELSE /\ last'.res = "some"
                   /\ last'.kv = {inner[key].value}
                   /\ DOMAIN inner' = DOMAIN inner \ {key}
                   /\ \A k \in DOMAIN inner' : inner'[k] = inner[k]
                   /\ outbound' = Append(outbound,
                          [announce |-> {}, withdraw |-> {encode(inner[key])}])
                   /\ KvStore_get(store_next, key) = {}]_vars

C5_Witness ==
    /\ last.op = "remove" /\ last.had /\ last.res = "some"
    /\ last.key \notin DOMAIN inner
    /\ DOMAIN inner # {}
    /\ Len(outbound) > 0
    /\ outbound[Len(outbound)].announce = {}
    /\ outbound[Len(outbound)].withdraw # {}

\* C6: the version the store holds for a key never decreases from one
\* state to the next, and a local insert of a present key increases it by
\* exactly 1.
C6_VersionMonotone ==
    [][\A k \in DOMAIN inner \cap DOMAIN inner' :
          /\ inner'[k].version >= inner[k].version
          /\ (last'.op = "insert" /\ last'.key = k)
                => inner'[k].version = inner[k].version + 1]_vars

\* C7: for every key present in the store, the entry's version is the
\* highest version observed so far for that key from a local insert or a
\* pair delivered by a peer.
C7_MaxObserved ==
    \A k \in DOMAIN inner : k \in DOMAIN observed /\ inner[k].version = observed[k]

\* C9: encoding a pair that needs more than 65535 routes, or whose key or
\* value length does not fit the 16-bit length field, is refused with an
\* encode error; no collection is returned whose sequence numbers, N or
\* length fields have wrapped modulo 2^16.
C9_Refused ==
    codec.op = "encode_large" =>
       /\ exceeds_capacity(codec.key_len, codec.value_len, codec.count)
             => codec.status = "err"
       /\ codec.status = "ok" =>
             /\ codec.key_len_field = codec.key_len
             /\ codec.val_len_field = codec.value_len
             /\ codec.n_field = codec.count
             /\ codec.last_seq = codec.count - 1

\* C10: for a collection of N >= 2 routes produced by encode and every
\* position i in 0..N-1, decoding the collection without route i returns a
\* decode error.
C10_MissingRoute ==
    (codec.op = "missing" /\ Len(codec.routes) >= 2) => codec.res.status = "err"

\* ------------------------------------------------------------------------
\* Properties of the reassembly in the sync loop
\* ------------------------------------------------------------------------
\* the step is one pass of the inbound branch
inbound_step == heard' # heard

\* the learned update the step handles
learned == CHOOSE ev \in heard'.ev : TRUE

\* the step handles an update that converts to a Route
learned_route_ok == inbound_step /\ Route_try_from(learned).status = "ok"

\* the Route the learned update converts to
learned_route == CHOOSE r \in Route_try_from(learned).route : TRUE

\* the Vec<Route> pending_routes holds for a key hash before the step
pending_entry(h) == IF h \in DOMAIN pending THEN pending[h] ELSE << >>

\* the pair the step passes to insert_from_peer
delivered_kv == CHOOSE kv \in last'.kv : TRUE

\* the two Vecs hold the same routes, in any order
same_routes(a, b) ==
    /\ Len(a) = Len(b)
    /\ \A i \in 1..Len(a) : \E j \in 1..Len(b) : a[i] = b[j]
    /\ \A j \in 1..Len(b) : \E i \in 1..Len(a) : a[i] = b[j]

\* C11: reassembly idempotence. An announce route whose sequence number is
\* already present in the pending entry of its key hash at the same version
\* is not appended: the step leaves the reassembly buffer as it was and
\* delivers nothing, so a collection announced twice is decoded once.
C11_Idempotent ==
    [][(learned_route_ok /\ learned.attr = "MP_REACH_NLRI"
          /\ \E i \in 1..Len(pending_entry(hash(learned_route))) :
                LET held == pending_entry(hash(learned_route))[i]
                IN  /\ sequence(held) = sequence(learned_route)
                    /\ next_hop_version(held.next_hop)
                          = next_hop_version(learned_route.next_hop))
       => (pending' = pending /\ last'.res # "delivered")]_vars

\* C12: supersession. An announce route of a higher version than the
\* pending entry of its key hash discards that entry and starts a fresh one
\* with the route alone; every pair delivered to the store is one a peer
\* encoded, never a pair decoded from routes of two versions.
C12_Supersession ==
    [][inbound_step =>
          /\ last'.res = "delivered" => delivered_kv \in SyncPeerKVs
          /\ (/\ learned_route_ok
              /\ learned.attr = "MP_REACH_NLRI"
              /\ hash(learned_route) \in DOMAIN pending
              /\ collection_length(learned_route) > 1
              /\ next_hop_version(learned_route.next_hop)
                    > next_hop_version(pending[hash(learned_route)][1].next_hop))
             => (/\ hash(learned_route) \in DOMAIN pending'
                 /\ pending'[hash(learned_route)] = <<learned_route>>
                 /\ last'.res # "delivered")]_vars

\* C13: a pair is delivered only by the step that brings a pending entry to
\* its N routes; when the routes held and the route learned are, in any
\* order, the N routes of the encoding of a pair, the step delivers exactly
\* that pair to the store and removes the pending entry of its key hash.
C13_Reassembly ==
    [][inbound_step =>
          /\ last'.res = "delivered" =>
                /\ learned_route_ok
                /\ Len(pending_entry(hash(learned_route))) + 1
                      = collection_length(learned_route)
          /\ \A kv \in SyncPeerKVs :
                (/\ learned_route_ok
                 /\ learned.attr = "MP_REACH_NLRI"
                 /\ same_routes(Append(pending_entry(kv.hash), learned_route),
                                encode(kv)))
                => (/\ last'.res = "delivered"
                    /\ last'.kv = {kv}
                    /\ kv.hash \notin DOMAIN pending'
                    /\ running')]_vars

\* the route built first arrived last: the pair was delivered out of order
C13_Witness ==
    /\ last.op = "inbound" /\ last.res = "delivered"
    /\ last.kv \subseteq SyncPeerKVs
    /\ \E ev \in heard.ev :
          /\ ev.attr = "MP_REACH_NLRI"
          /\ \E kv \in last.kv :
                /\ Len(encode(kv)) >= 2
                /\ ev = Announce(encode(kv)[1])
                /\ kv.hash \notin DOMAIN pending

\* ------------------------------------------------------------------------
\* Properties of the channel and of the outbound branch
\* ------------------------------------------------------------------------
\* the step is one pass of the outbound branch: it received an Update
outbound_step == Len(channel') < Len(channel)

\* the step is an API mutation that produced an Update
mutation_step == Len(applied') > Len(applied)

\* the calls of RIB::insert_from_api the step made
new_calls == SubSeq(rib', Len(rib) + 1, Len(rib'))

\* the routes of an Option<RouteCollection>, in collection order
routes_of(collection) ==
    IF collection = {} THEN << >> ELSE CHOOSE c \in collection : TRUE

\* the routes named by the calls of one kind, in call order
called(calls, kind) ==
    LET of_kind == SelectSeq(calls, LAMBDA c : c.kind = kind)
    IN  [i \in 1..Len(of_kind) |->
            [prefix |-> of_kind[i].prefix, next_hop |-> of_kind[i].next_hop]]

\* C14: no pass of the inbound branch (an announce route, a withdraw route,
\* a completed reassembly, a decode failure) sends an Update on the channel
\* or calls the RIB; an Update enters the channel only in an API insert or
\* remove, and every call of the RIB is made for an Update received from
\* the channel.
C14_NoOutboundFromInbound ==
    [][/\ inbound_step => (channel' = channel /\ rib' = rib)
       /\ Len(channel') > Len(channel) =>
             (/\ ~inbound_step
              /\ last'.op \in {"insert", "remove"}
              /\ channel' = Append(channel, applied'[Len(applied')]))
       /\ rib' # rib =>
             (/\ outbound_step
              /\ Len(rib') > Len(rib)
              /\ SubSeq(rib', 1, Len(rib)) = rib
              /\ \A i \in 1..Len(new_calls) :
                    LET route == [prefix |-> new_calls[i].prefix,
                                  next_hop |-> new_calls[i].next_hop]
                        received == Head(channel)
                    IN  \/ \E j \in 1..Len(routes_of(received.announce)) :
                              routes_of(received.announce)[j] = route
                        \/ \E j \in 1..Len(routes_of(received.withdraw)) :
                              routes_of(received.withdraw)[j] = route)]_vars

\* a pair was delivered by the inbound branch while an Update of the API
\* waits on the channel and the routes of an earlier one are in the RIB
C14_Witness ==
    /\ last.op = "inbound" /\ last.res = "delivered"
    /\ heard.ev # {}
    /\ Len(channel) = 1
    /\ Len(applied) = 2
    /\ rib = insert_from_api(applied[1])

\* C15: when the outbound branch handles an Update that has both parts, it
\* makes every withdraw call for the routes of the old version before any
\* announce call for the routes of the new version.
C15_WithdrawFirst ==
    [][outbound_step =>
          \A i, j \in 1..Len(new_calls) :
             (new_calls[i].kind = "announce" /\ new_calls[j].kind = "withdraw")
                => j < i]_vars

\* C16: the channel holds the Updates of the latest API mutations in the
\* order the mutations took the store lock; the outbound branch receives
\* the oldest of them and makes RIB calls for this Update only, the routes
\* of each of its collections in ascending order of sequence number; the
\* calls made earlier stay in front.
C16_Fifo ==
    [][/\ Len(channel') <= Len(applied')
       /\ channel' = SubSeq(applied', Len(applied') - Len(channel') + 1,
                            Len(applied'))
       /\ mutation_step =>
             (/\ Len(applied') = Len(applied) + 1
              /\ SubSeq(applied', 1, Len(applied)) = applied
              /\ channel' = Append(channel, applied'[Len(applied')])
              /\ rib' = rib)
       /\ outbound_step =>
             (/\ channel' = Tail(channel)
              /\ applied' = applied
              /\ SubSeq(rib', 1, Len(rib)) = rib
              /\ Len(new_calls) = Len(routes_of(Head(channel).announce))
                                  + Len(routes_of(Head(channel).withdraw))
              /\ called(new_calls, "announce") = routes_of(Head(channel).announce)
              /\ called(new_calls, "withdraw") = routes_of(Head(channel).withdraw)
              /\ is_sorted(called(new_calls, "announce"))
              /\ is_sorted(called(new_calls, "withdraw")))
       /\ (~outbound_step) => rib' = rib]_vars

\* the Updates of two mutations were received, and the calls made for the
\* first are in front of the calls made for the second
C16_Witness ==
    /\ Len(applied) = 2
    /\ applied[1] # applied[2]
    /\ channel = << >>
    /\ rib = insert_from_api(applied[1]) \o insert_from_api(applied[2])
    /\ Len(insert_from_api(applied[1])) >= 2
    /\ Len(insert_from_api(applied[2])) >= 2

\* C17: a learned withdraw route that carries the magic is a removal
\* signal only. The step leaves no pending entry for its key hash, leaves
\* no store entry whose key hashes to it, leaves every other store entry as
\* it was, appends the route to no pending entry and delivers no pair.
C17_WithdrawRemoves ==
    [][(learned_route_ok /\ learned.attr = "MP_UNREACH_NLRI") =>
          LET h == hash(learned_route)
          IN  /\ h \notin DOMAIN pending'
              /\ \A x \in DOMAIN pending' :
                    x \in DOMAIN pending /\ pending'[x] = pending[x]
              /\ \A k \in DOMAIN inner' : get_hash(k) # h
              /\ \A k \in DOMAIN inner :
                    get_hash(k) # h => (k \in DOMAIN inner' /\ inner'[k] = inner[k])
              /\ DOMAIN inner' \subseteq DOMAIN inner
              /\ last'.res # "delivered"]_vars

C19_ConcurrentInserts ==
    [][\A key \in SyncKeys :
          (/\ mutation_step
           /\ last'.op = "insert"
           /\ last'.key = key
           /\ key \in DOMAIN inner
           /\ inner[key].version = 0
           /\ Len(applied) >= 1
           /\ applied[Len(applied)] =
                 [announce |-> {encode(inner[key])}, withdraw |-> {}])
          => LET first == inner[key]
                 second == [first EXCEPT !.value = last'.value, !.version = 1]
                 n == Len(applied')
             IN  /\ DOMAIN inner' = DOMAIN inner
                 /\ inner'[key] = second
                 /\ KvStore_get(store_next, key) = {last'.value}
                 /\ n = Len(applied) + 1
                 /\ applied'[n - 1] = [announce |-> {encode(first)}, withdraw |-> {}]
                 /\ applied'[n] = [announce |-> {encode(second)},
                                   withdraw |-> {encode(first)}]
                 /\ channel' = Append(channel, applied'[n])
                 /\ channel = SubSeq(applied, Len(applied) - Len(channel) + 1,
                                     Len(applied))]_vars

\* both Updates wait on the channel; the second insert wrote another value
C19_Witness ==
    /\ last.op = "insert" /\ last.had /\ last.res = "ok"
    /\ last.key \in DOMAIN inner
    /\ inner[last.key].version = 1
    /\ inner[last.key].value = last.value
    /\ Len(channel) = 2
    /\ channel[1].withdraw = {}
    /\ \E v \in SyncValues :
          /\ v # last.value
          /\ channel[1].announce = {encode(new(last.key, v))}
          /\ channel[2].withdraw = {encode(new(last.key, v))}
    /\ channel[2].announce = {encode(inner[last.key])}

\* C20: every API mutation that succeeds hands exactly one Update to the
\* channel of the sync loop, and the store holds no queued Update of its
\* own after the call.
C20_NoStoreQueue ==
    [][/\ mutation_step => channel' = Append(channel, applied'[Len(applied')])
       /\ outbound' = << >>]_vars

\* ------------------------------------------------------------------------
\* Codec: route counts, the documented scenario, malformed collections
\* ------------------------------------------------------------------------
\* ceil((4 + key_len + value_len) / 12) in exact integer arithmetic
routes_required(key_length, value_length) ==
    (4 + key_length + value_length + 11) \div 12

\* C21: for every pair, the number of routes encoding produces, the value
\* of number_of_routes() and the N field of each next-hop all equal
\* ceil((4 + key_len + value_len) / 12).
C21_RouteCount ==
    /\ codec.op = "encode" =>
          LET n == routes_required(key_len(codec.kv), value_len(codec.kv))
          IN  /\ Len(codec.routes) = n
              /\ number_of_routes(codec.kv) = n
              /\ \A i \in 1..Len(codec.routes) :
                     collection_length(codec.routes[i]) = n
    /\ codec.op = "encode_large" =>
          LET n == routes_required(codec.key_len, codec.value_len)
          IN  /\ codec.count = n
              /\ codec.num_routes = n
              /\ codec.n_field = n

\* C22 as published: the pair ("MyKey", "Some Value") is encoded to exactly
\* 2 routes, the prefix of the first has the segments 0xBF51, 0, 13, 18,
\* and decoding the collection recovers the pair at version 0.
C22_S4_TwoRoutes ==
    /\ (codec.op \in {"encode", "decode"} /\ codec.kv = S4Pair) =>
          /\ Len(codec.routes) = 2
          /\ segments(codec.routes[1].prefix, 0) = 48977
          /\ segments(codec.routes[1].prefix, 1) = 0
          /\ segments(codec.routes[1].prefix, 2) = 13
          /\ segments(codec.routes[1].prefix, 3) = 18
    /\ (codec.op = "decode" /\ codec.kv = S4Pair) =>
          codec.res = Ok(with_version(S4Key, S4Value, 0))

\* C22: the pair ("MyKey", "Some Value"), key_len 13 and value_len 18, is
\* encoded to exactly 3 routes (35 bytes in chunks of 12), each with N = 3;
\* the prefix of the first has the segments 0xBF51, 0, 13, 18; decoding the
\* collection recovers the pair at version 0.
C22_S4_ThreeRoutes ==
    /\ (codec.op \in {"encode", "decode"} /\ codec.kv = S4Pair) =>
          /\ key_len(codec.kv) = 13
          /\ value_len(codec.kv) = 18
          /\ Len(codec.routes) = 3
          /\ \A i \in 1..3 : collection_length(codec.routes[i]) = 3
          /\ segments(codec.routes[1].prefix, 0) = 48977
          /\ segments(codec.routes[1].prefix, 1) = 0
          /\ segments(codec.routes[1].prefix, 2) = 13
          /\ segments(codec.routes[1].prefix, 3) = 18
    /\ (codec.op = "decode" /\ codec.kv = S4Pair) =>
          codec.res = Ok(with_version(S4Key, S4Value, 0))

C22_Witness ==
    /\ codec.op = "decode"
    /\ codec.kv = S4Pair
    /\ codec.res.status = "ok"
    /\ Len(codec.routes) = 3

\* ------------------------------------------------------------------------
\* Sync loop: shutdown, versions, failed decodes, pending entries
\* ------------------------------------------------------------------------
\* C23: on shutdown, which includes the outbound channel being closed
\* because every sender is gone, the sync loop forwards the Updates still
\* queued one final time and terminates; it does not loop forever.
C23_ShutdownTerminates ==
    (~outbound_tx.alive) ~> (channel = << >> /\ ~running)

\* the collection that CodecMissing decoded
missing_collection == from_routes(without_route(codec.routes, codec.removed))

\* every route carries the magic and the sequence numbers are 0, 1, 2, ...
contiguous(routes) == decode_bad(routes) = {}

\* C24: decoding a collection whose length header implies more payload
\* than its routes provide returns a decode error, and decode never panics
\* on a collection of magic-carrying routes with contiguous sequence numbers.
C24_TruncatedIsError ==
    /\ (codec.op = "missing" /\ Len(missing_collection) >= 1
           /\ contiguous(missing_collection)
           /\ key_len(codec.kv) + value_len(codec.kv)
                  > Len(decode_bytes(missing_collection)))
       => codec.res.status = "err"
    /\ (codec.op = "missing" /\ contiguous(missing_collection))
       => codec.res.status # "panic"
    /\ codec.op = "decode" => codec.res.status # "panic"

\* every route has the version, key hash and N of the first, and the
\* collection has N routes
uniform(routes) ==
    /\ \A i \in 1..Len(routes) :
          /\ next_hop_version(routes[i].next_hop) = next_hop_version(routes[1].next_hop)
          /\ hash(routes[i]) = hash(routes[1])
          /\ collection_length(routes[i]) = collection_length(routes[1])
    /\ Len(routes) = collection_length(routes[1])

\* C25: decode rejects every collection in which some route's version,
\* key hash or N differs from the first route's, or whose number of routes
\* differs from N; it succeeds only when all routes share them and the
\* sequence numbers are 0..N-1.
C25_UniformOrRejected ==
    /\ codec.op = "changed" =>
          /\ ~uniform(codec.decoded) => codec.res.status = "err"
          /\ codec.res.status = "ok" =>
                (uniform(codec.decoded) /\ contiguous(codec.decoded))
    /\ codec.op = "decode" =>
          (codec.res.status = "ok" =>
              (uniform(codec.routes) /\ contiguous(codec.routes)))

\* C26: an inbound announce route whose version is lower than the version
\* of the pending entry of its key hash is dropped: the entry is unchanged
\* and nothing is delivered.
C26_OlderDropped ==
    [][(/\ learned_route_ok
        /\ learned.attr = "MP_REACH_NLRI"
        /\ hash(learned_route) \in DOMAIN pending
        /\ next_hop_version(learned_route.next_hop)
              < next_hop_version(pending[hash(learned_route)][1].next_hop))
       => (pending' = pending /\ last'.res # "delivered")]_vars

\* the step brings the pending entry of the learned route to its N routes
completing_step ==
    /\ learned_route_ok
    /\ Len(pending_entry(hash(learned_route))) + 1 = collection_length(learned_route)

\* the collection the completing step decodes
completed == from_routes(Append(pending_entry(hash(learned_route)), learned_route))

\* C27: when a pending entry reaches its N routes and decoding the
\* collection fails, the entry is removed, the store is unchanged, nothing is
\* sent outbound and the loop continues.
C27_FailedDecodeDiscarded ==
    [][(completing_step /\ decode(completed, overflow_checks).status # "ok")
       => (/\ hash(learned_route) \notin DOMAIN pending'
           /\ inner' = inner
           /\ outbound' = outbound
           /\ channel' = channel
           /\ rib' = rib
           /\ running')]_vars

\* C28: when the outbound branch has handled the Update of a local update
\* from version v to v + 1, every route of the v + 1 collection has been
\* announced and none of them is cancelled by a withdraw of the v collection
\* made after it, also when a prefix of v and a prefix of v + 1 are the
\* same 128-bit address.
C28_AnnounceNotCancelled ==
    [][outbound_step =>
          /\ called(new_calls, "announce") = routes_of(Head(channel).announce)
          /\ \A i, j \in 1..Len(new_calls) :
                (/\ new_calls[i].kind = "announce"
                 /\ new_calls[j].kind = "withdraw"
                 /\ new_calls[j].prefix = new_calls[i].prefix)
                => j < i]_vars

\* C29: every pending entry holds at least one route and fewer than N
\* routes, with pairwise distinct sequence numbers and the same version and
\* N; an entry never holds N routes or more (a route with N = 0 or a
\* duplicate cannot make it grow past N without completing).
C29_PendingWellFormed ==
    \A h \in DOMAIN pending :
        LET entry == pending[h]
        IN  /\ Len(entry) >= 1
            /\ Len(entry) < collection_length(entry[1])
            /\ \A i, j \in 1..Len(entry) :
                  /\ i # j => sequence(entry[i]) # sequence(entry[j])
                  /\ next_hop_version(entry[i].next_hop)
                        = next_hop_version(entry[j].next_hop)
                  /\ collection_length(entry[i]) = collection_length(entry[j])

\* C30: every pair delivered to the store has a key whose hash equals the
\* key hash of the next-hops of the routes it was reassembled from; a
\* collection whose decoded key hashes to another value is not delivered.
C30_DeliveredHashMatches ==
    [][(inbound_step /\ last'.res = "delivered")
       => (/\ completing_step
           /\ \A i \in 1..Len(completed) :
                 get_hash(delivered_kv.key) = hash(completed[i])
           /\ delivered_kv.hash = hash(learned_route))]_vars

\* ------------------------------------------------------------------------
\* Locks, fairness of the select loop, the version counter
\* ------------------------------------------------------------------------
\* C31: the API handlers and the sync loop never deadlock: a handler holds
\* the store's write guard while it sends on the unbounded channel, the
\* loop awaits the store's write guard while it holds the session guard,
\* and every task that waits for the store lock eventually holds it.
C31_StoreLockGranted ==
    \A task \in Handlers \cup {"loop"} :
        (pc[task] = "waiting") ~> (store_lock.holder = task)

\* the loop, holding the session guard, waits for the store lock which a
\* handler holds while Updates are in the channel
C31_Witness ==
    /\ pc.loop = "waiting"
    /\ store_lock.holder \in Handlers
    /\ store_lock.queue = <<"loop">>
    /\ channel # << >>

\* the calls of RIB::insert_from_api for the first n Updates sent
RECURSIVE calls_for(_)
calls_for(n) ==
    IF n = 0 THEN << >> ELSE calls_for(n - 1) \o insert_from_api(applied[n])

\* the n-th Update sent was received and all its routes were handed to the RIB
handed(n) ==
    /\ Len(applied) >= n
    /\ Len(applied) - Len(channel) >= n
    /\ Len(rib) >= Len(calls_for(n))
    /\ SubSeq(rib, 1, Len(calls_for(n))) = calls_for(n)

\* C32: under fair scheduling every Update sent on the channel is eventually
\* received by the sync loop and all of its routes are handed to the RIB,
\* whatever peers keep announcing.
C32_OutboundNotStarved ==
    \A n \in 1..MaxApplied : (Len(applied) >= n) ~> handed(n)

\* the version in the next-hops of the collection of an Update's part
part_version(part) == next_hop_version((CHOOSE c \in part : TRUE)[1].next_hop)

\* C33: a local insert on a key whose version is 65535 does not leave the
\* store with a lower version for that key: the version does not wrap to 0,
\* and the announce of the Update it builds does not carry a version lower
\* than its withdraw.
C33_NoVersionWrap ==
    [][(/\ last'.op = "insert"
        /\ last'.key \in DOMAIN inner
        /\ inner[last'.key].version = U16_MAX)
       => (/\ last'.key \in DOMAIN inner'
           /\ inner'[last'.key].version >= inner[last'.key].version
           /\ inner'[last'.key].version # 0
           /\ Len(outbound') > Len(outbound) =>
                 LET built == outbound'[Len(outbound')]
                 IN  part_version(built.announce) >= part_version(built.withdraw))]_vars

====
